---- MODULE Spec2Model ----
(***************************************************************************)
(* Model of the vk-playground runtime: GPU context bootstrap (Vk::new),    *)
(* physical device selection, the swapchain bundle life cycle              *)
(* (create_swapchain / recreate_swapchain / SwapchainHolder::destroy),     *)
(* the frame loop of run, and the drop order of AppContext and Vk.         *)
(*                                                                         *)
(* Native calls, host callbacks and drops are recorded in `log`, a         *)
(* sequence of <<op, kind, id>> triples, so that the order of creations    *)
(* and destructions can be stated.  Native handles are <<kind, id>> with   *)
(* ids drawn from the counter `nextId`.                                    *)
(***************************************************************************)
EXTENDS Integers, Sequences, FiniteSets, TLC

\* ------------------------------------------------------------------ bounds
MaxDevices  == 2   \* physical devices enumerated (selection specification)
MaxFamilies == 2   \* queue families enumerated
MaxImages   == 2   \* images a swapchain may hand back
MaxFrames   == 2   \* iterations of the frame loop
MaxEvents   == 2   \* window events delivered over a whole run

\* ------------------------------------------------------- program constants
\* A u32 is kept as two 16-bit limbs <<high, low>>.
Limb            == 65536
DiscreteBonus   == 1000
IntegratedBonus == 100

None == <<>>
Some(x) == <<x>>

\* ------------------------------------------------- physical device selection
DeviceTypes == {"DISCRETE_GPU", "INTEGRATED_GPU", "CPU"}

U32(high, low) == <<high, low>>

\* wrapping u32 addition and whether it overflowed
u32_add(a, b) ==
    LET low  == a[2] + b[2]
        high == a[1] + b[1] + (low \div Limb)
    IN  [value |-> U32(high % Limb, low % Limb), overflow |-> high >= Limb]

u32_le(a, b) == a[1] < b[1] \/ (a[1] = b[1] /\ a[2] <= b[2])

\* max_image_dimension2_d values: small ones that tie across device types
\* (1000 + 0 = 100 + 900) and one at the top of the u32 range (2^32 - 1000).
Dims == {U32(0, 0), U32(0, 900), U32(0, 4096), U32(Limb - 1, Limb - 1000)}

get_required_device_extensions ==
    <<"VK_KHR_portability_subset", "VK_KHR_swapchain", "VK_KHR_dynamic_rendering">>

AllExtensions ==
    {"VK_KHR_portability_subset", "VK_KHR_swapchain", "VK_KHR_dynamic_rendering"}

ExtensionSets == {AllExtensions, {"VK_KHR_swapchain", "VK_KHR_dynamic_rendering"}}

PhysicalDeviceProps ==
    [device_type : DeviceTypes, max_image_dimension2_d : Dims, extensions : ExtensionSets]

type_bonus(device_type) ==
    CASE device_type = "DISCRETE_GPU"   -> DiscreteBonus
      [] device_type = "INTEGRATED_GPU" -> IntegratedBonus
      [] OTHER                          -> 0

\* `score` after the two `score +=` statements, and whether the second
\* one overflowed (the first adds the bonus to 0)
device_score(props) ==
    u32_add(u32_add(U32(0, 0), U32(0, type_bonus(props.device_type))).value,
            props.max_image_dimension2_d)

BTreeMap_insert(map, key, value) ==
    [k \in (DOMAIN map) \cup {key} |-> IF k = key THEN value ELSE map[k]]

BTreeMap_last_key(map) == CHOOSE k \in DOMAIN map : \A j \in DOMAIN map : u32_le(j, k)

\* The scoring loop.  A device is identified by its position in the
\* enumeration.  With overflow checks on, an overflowing `score +=` panics.
RECURSIVE score_candidates(_, _, _, _)
score_candidates(devices, i, candidates, overflow_checks) ==
    IF i > Len(devices) THEN [panic |-> FALSE, candidates |-> candidates]
    ELSE IF overflow_checks /\ device_score(devices[i]).overflow
         THEN [panic |-> TRUE, candidates |-> candidates]
    ELSE score_candidates(devices, i + 1,
                          BTreeMap_insert(candidates, device_score(devices[i]).value, i),
                          overflow_checks)

RECURSIVE count_supported(_, _, _)
count_supported(required, actual, i) ==
    IF i > Len(required) THEN 0
    ELSE (IF required[i] \in actual THEN 1 ELSE 0) + count_supported(required, actual, i + 1)

SelectResult(status, candidate) == [status |-> status, candidate |-> candidate]

\* Variant: an empty candidate map yields a null handle instead of an error.
select_physical_device_null_on_empty(in, required_device_extensions) ==
    IF ~in.enum_ok THEN SelectResult("panic", 0)
    ELSE LET scored == score_candidates(in.devices, 1, <<>>, in.overflow_checks) IN
         IF scored.panic THEN SelectResult("panic", 0)
         ELSE IF DOMAIN scored.candidates = {} THEN SelectResult("ok", 0)
         ELSE LET physical_device == scored.candidates[BTreeMap_last_key(scored.candidates)]
                  actual == in.devices[physical_device].extensions
                  count == count_supported(required_device_extensions, actual, 1)
              IN IF ~in.ext_enum_ok THEN SelectResult("ErrExtensionEnumeration", physical_device)
                 ELSE IF count # Len(required_device_extensions)
                      THEN SelectResult("ErrMissingExtensions", physical_device)
                 ELSE SelectResult("ok", physical_device)

\* in: [enum_ok, devices, ext_enum_ok, overflow_checks]
\* status: "ok", "panic", or the error returned; candidate: the device taken
\* from the map (0 when none was taken).
select_physical_device(in, required_device_extensions) ==
    IF ~in.enum_ok THEN SelectResult("panic", 0)
    ELSE LET scored == score_candidates(in.devices, 1, <<>>, in.overflow_checks) IN
         IF scored.panic THEN SelectResult("panic", 0)
         ELSE IF DOMAIN scored.candidates = {} THEN SelectResult("ErrNoSuitableDevice", 0)
         ELSE LET physical_device == scored.candidates[BTreeMap_last_key(scored.candidates)]
                  actual == in.devices[physical_device].extensions
                  count == count_supported(required_device_extensions, actual, 1)
              IN IF ~in.ext_enum_ok THEN SelectResult("ErrExtensionEnumeration", physical_device)
                 ELSE IF count # Len(required_device_extensions)
                      THEN SelectResult("ErrMissingExtensions", physical_device)
                 ELSE SelectResult("ok", physical_device)

\* --------------------------------------------------------- queue family lookup
QueueFlags == {"GRAPHICS", "COMPUTE"}
QueueFlagSets == SUBSET QueueFlags

\* Variant: `intersects` in place of `contains`: one of the two flags suffices.
RECURSIVE find_queue_family_from_any_flag(_, _)
find_queue_family_from_any_flag(queue_families, i) ==
    IF i > Len(queue_families) THEN -1
    ELSE IF {"GRAPHICS", "COMPUTE"} \cap queue_families[i] # {} THEN i - 1
    ELSE find_queue_family_from_any_flag(queue_families, i + 1)

\* Returns the 0-based index of the first family with both flags, or -1 for
\* the panic at the end of the function.
RECURSIVE find_queue_family_from(_, _)
find_queue_family_from(queue_families, i) ==
    IF i > Len(queue_families) THEN -1
    ELSE IF {"GRAPHICS", "COMPUTE"} \subseteq queue_families[i] THEN i - 1
    ELSE find_queue_family_from(queue_families, i + 1)

find_queue_family_indices(queue_families) == find_queue_family_from(queue_families, 1)

\* ------------------------------------------------------------ native objects
\* A log entry: <<op, kind, id>>.
\*   "create"/"destroy"  a native create/destroy call on handle <<kind, id>>
\*   "drop"              a Rust value without a native destroy call is dropped
\*   "call"/"err"        a host application call is made / has returned Err
\*   "deliver"/"take"    a window event enters the queue / is taken by the loop
\*   "check"             the loop condition is evaluated (kind = flag seen)
Entry(op, kind, id) == <<op, kind, id>>

IsLive(lg, kind, id) ==
    /\ \E i \in 1..Len(lg) : lg[i] = Entry("create", kind, id)
    /\ ~\E i \in 1..Len(lg) : lg[i] = Entry("destroy", kind, id)

LiveOfKind(lg, kind) ==
    {lg[i][3] : i \in {j \in 1..Len(lg) :
                          /\ lg[j][1] = "create"
                          /\ lg[j][2] = kind
                          /\ ~\E k \in (j + 1)..Len(lg) :
                                 lg[k] = Entry("destroy", kind, lg[j][3])}}

CountOf(lg, e) == Cardinality({i \in 1..Len(lg) : lg[i] = e})

\* --------------------------------------------------------------- SwapchainHolder
RECURSIVE destroy_image_views(_, _, _)
destroy_image_views(image_views, i, lg) ==
    IF i > Len(image_views) THEN lg
    ELSE destroy_image_views(image_views, i + 1,
                             Append(lg, Entry("destroy", "image_view", image_views[i])))

SwapchainHolder_destroy(holder, lg) ==
    Append(destroy_image_views(holder.image_views, 1, lg),
           Entry("destroy", "swapchain", holder.swapchain))

\* ---------------------------------------------------------------------------- Vk
InstanceOutcomes == {"ok", "ErrRequiredExtensions", "ErrInstanceCreation", "panic"}

VkResult(status, vk, lg, nid) == [status |-> status, vk |-> vk, log |-> lg, nextId |-> nid]

\* create_device: the native result is unwrapped with expect and the value is
\* wrapped in Ok, so a native failure is a panic and never an Err.
create_device(native_ok) == IF native_ok THEN "ok" ELSE "panic"

\* in: [instance, select, queue_families, device_ok]
\* The log also records the enumeration of the physical devices (id = how
\* many were enumerated) and a failed native device creation ("fail").
\* The locals `entry` and `instance` have no destructor that calls
\* destroy_instance: on an early return or a panic they are only dropped.
Vk_new(in, lg, nid) ==
    IF in.instance # "ok"
    THEN VkResult(in.instance, None, Append(lg, Entry("drop", "entry", 0)), nid)
    ELSE
    LET instance == nid
        lg0 == Append(lg, Entry("create", "instance", instance))
        lg1 == IF in.select.enum_ok
               THEN Append(lg0, Entry("enumerate", "physical_device", Len(in.select.devices)))
               ELSE lg0
        required_device_extensions == get_required_device_extensions
        selected == select_physical_device(in.select, required_device_extensions)
        queue_family_idx == find_queue_family_indices(in.queue_families)
        device == create_device(in.device_ok)
    IN  IF selected.status # "ok"
        THEN VkResult(selected.status, None, Append(lg1, Entry("drop", "entry", 0)), nid + 1)
        ELSE IF queue_family_idx = -1
        THEN VkResult("panic", None, Append(lg1, Entry("drop", "entry", 0)), nid + 1)
        ELSE IF device # "ok"
        THEN VkResult(device, None,
                      lg1 \o << Entry("fail", "device", 0), Entry("drop", "entry", 0) >>,
                      nid + 1)
        ELSE VkResult("ok",
                      [instance |-> instance,
                       physical_device |-> selected.candidate,
                       queue_family_idx |-> queue_family_idx,
                       device |-> nid + 1],
                      Append(lg1, Entry("create", "device", nid + 1)),
                      nid + 2)

\* Variant: the instance is destroyed before the device created from it.
Vk_drop_instance_first(v, lg) ==
    lg \o << Entry("destroy", "instance", v.instance),
             Entry("drop", "physical_device", 0),
             Entry("destroy", "device", v.device),
             Entry("drop", "entry", 0) >>

Vk_drop(v, lg) ==
    lg \o << Entry("destroy", "device", v.device),
             Entry("drop", "physical_device", 0),
             Entry("destroy", "instance", v.instance),
             Entry("drop", "entry", 0) >>

\* ---------------------------------------------------------------- create_swapchain
SwapchainResult(status, swapchain, lg, nid) ==
    [status |-> status, swapchain |-> swapchain, log |-> lg, nextId |-> nid]

\* The image view loop: view_fail_at = k > 0 makes the k-th create_image_view
\* fail; the views created before it stay in the local vector, which is
\* dropped without a destroy call.
\* Each create_image_view call is logged as the image named in its create
\* info ("view_of"), followed by the view created when the call succeeds.
\* Variant: each new view is inserted at the front of the vector.
RECURSIVE create_image_views_reversed(_, _, _, _, _, _)
create_image_views_reversed(images, i, image_views, view_fail_at, lg, nid) ==
    IF i > Len(images) THEN [ok |-> TRUE, image_views |-> image_views, log |-> lg, nextId |-> nid]
    ELSE IF view_fail_at = i
         THEN [ok |-> FALSE, image_views |-> image_views,
               log |-> Append(lg, Entry("view_of", "image", images[i])), nextId |-> nid]
    ELSE create_image_views_reversed(images, i + 1, <<nid>> \o image_views, view_fail_at,
                            lg \o << Entry("view_of", "image", images[i]),
                                     Entry("create", "image_view", nid) >>,
                            nid + 1)

RECURSIVE create_image_views(_, _, _, _, _, _)
create_image_views(images, i, image_views, view_fail_at, lg, nid) ==
    IF i > Len(images) THEN [ok |-> TRUE, image_views |-> image_views, log |-> lg, nextId |-> nid]
    ELSE IF view_fail_at = i
         THEN [ok |-> FALSE, image_views |-> image_views,
               log |-> Append(lg, Entry("view_of", "image", images[i])), nextId |-> nid]
    ELSE create_image_views(images, i + 1, Append(image_views, nid), view_fail_at,
                            lg \o << Entry("view_of", "image", images[i]),
                                     Entry("create", "image_view", nid) >>,
                            nid + 1)

\* in: [swapchain_ok, images, view_fail_at]; images = 0: get_swapchain_images fails
create_swapchain(in, lg, nid) ==
    IF ~in.swapchain_ok THEN SwapchainResult("ErrSwapchainCreation", None, lg, nid)
    ELSE
    LET swapchain == nid
        lg1 == Append(lg, Entry("create", "swapchain", swapchain))
    IN  IF in.images = 0 THEN SwapchainResult("ErrSwapchainImages", None, lg1, nid + 1)
        ELSE
        LET images == [k \in 1..in.images |-> nid + k]
            views == create_image_views(images, 1, <<>>, in.view_fail_at, lg1, nid + 1 + in.images)
        IN  IF ~views.ok
            THEN SwapchainResult("ErrImageView", None, views.log, views.nextId)
            ELSE SwapchainResult("ok",
                                 Some([swapchain |-> swapchain, images |-> images,
                                       image_views |-> views.image_views]),
                                 views.log, views.nextId)

\* ------------------------------------------------------------------- AppContext
\* Variant: the old bundle is overwritten without being destroyed.
recreate_swapchain_keep_old(in, swapchain, lg, nid) ==
    LET lg0 == Append(lg, Entry("call", "recreate_swapchain", 0))
        lg2 == Append(lg0, Entry("call", "get_swapchain_format", 0))
        lg3 == Append(lg2, Entry("call", "get_swapchain_color_space", 0))
        lg4 == Append(lg3, Entry("call", "get_swapchain_min_image_count", 0))
    IN  IF ~in.format_ok
        THEN SwapchainResult("ErrFormat", None,
                             Append(lg2, Entry("err", "get_swapchain_format", 0)), nid)
        ELSE IF ~in.color_space_ok
        THEN SwapchainResult("ErrColorSpace", None,
                             Append(lg3, Entry("err", "get_swapchain_color_space", 0)), nid)
        ELSE IF ~in.min_image_count_ok
        THEN SwapchainResult("ErrMinImageCount", None,
                             Append(lg4, Entry("err", "get_swapchain_min_image_count", 0)), nid)
        ELSE create_swapchain(in.create, lg4, nid)

\* Variant: the old bundle is destroyed through a borrow (as_ref) instead of
\* take(), so a failed rebuild leaves it in the field.
recreate_swapchain_no_take(in, swapchain, lg, nid) ==
    LET lg0 == Append(lg, Entry("call", "recreate_swapchain", 0))
        lg1 == IF swapchain # None THEN SwapchainHolder_destroy(swapchain[1], lg0) ELSE lg0
        lg2 == Append(lg1, Entry("call", "get_swapchain_format", 0))
        lg3 == Append(lg2, Entry("call", "get_swapchain_color_space", 0))
        lg4 == Append(lg3, Entry("call", "get_swapchain_min_image_count", 0))
        made == create_swapchain(in.create, lg4, nid)
    IN  IF ~in.format_ok
        THEN SwapchainResult("ErrFormat", swapchain,
                             Append(lg2, Entry("err", "get_swapchain_format", 0)), nid)
        ELSE IF ~in.color_space_ok
        THEN SwapchainResult("ErrColorSpace", swapchain,
                             Append(lg3, Entry("err", "get_swapchain_color_space", 0)), nid)
        ELSE IF ~in.min_image_count_ok
        THEN SwapchainResult("ErrMinImageCount", swapchain,
                             Append(lg4, Entry("err", "get_swapchain_min_image_count", 0)), nid)
        ELSE IF made.status # "ok"
        THEN SwapchainResult(made.status, swapchain, made.log, made.nextId)
        ELSE made

\* in: [format_ok, color_space_ok, min_image_count_ok, create]
\* The arguments of create_swapchain are evaluated left to right after the old
\* bundle has been taken out of the field and destroyed.
recreate_swapchain(in, swapchain, lg, nid) ==
    LET lg0 == Append(lg, Entry("call", "recreate_swapchain", 0))
        lg1 == IF swapchain # None THEN SwapchainHolder_destroy(swapchain[1], lg0) ELSE lg0
        lg2 == Append(lg1, Entry("call", "get_swapchain_format", 0))
        lg3 == Append(lg2, Entry("call", "get_swapchain_color_space", 0))
        lg4 == Append(lg3, Entry("call", "get_swapchain_min_image_count", 0))
    IN  IF ~in.format_ok
        THEN SwapchainResult("ErrFormat", None,
                             Append(lg2, Entry("err", "get_swapchain_format", 0)), nid)
        ELSE IF ~in.color_space_ok
        THEN SwapchainResult("ErrColorSpace", None,
                             Append(lg3, Entry("err", "get_swapchain_color_space", 0)), nid)
        ELSE IF ~in.min_image_count_ok
        THEN SwapchainResult("ErrMinImageCount", None,
                             Append(lg4, Entry("err", "get_swapchain_min_image_count", 0)), nid)
        ELSE create_swapchain(in.create, lg4, nid)

\* Variant: the field `vk` is declared before `glfw` and `main_window`.
AppContext_drop_vk_first(c, lg) ==
    LET lg0 == Append(lg, Entry("drop", "AppContext", 0))
        lg1 == IF c.swapchain # None THEN SwapchainHolder_destroy(c.swapchain[1], lg0) ELSE lg0
        lg2 == Append(lg1, Entry("destroy", "surface", c.main_surface))
    IN  Vk_drop(c.vk, lg2) \o << Entry("drop", "glfw", 0), Entry("drop", "window", 0) >>

\* Drop for AppContext, followed by the drop of its fields in declaration
\* order: glfw, main_window, main_surface, vk, swapchain.
AppContext_drop(c, lg) ==
    LET lg0 == Append(lg, Entry("drop", "AppContext", 0))
        lg1 == IF c.swapchain # None THEN SwapchainHolder_destroy(c.swapchain[1], lg0) ELSE lg0
        lg2 == Append(lg1, Entry("destroy", "surface", c.main_surface))
        lg3 == lg2 \o << Entry("drop", "glfw", 0), Entry("drop", "window", 0) >>
    IN  Vk_drop(c.vk, lg3)

\* ------------------------------------------------------------------------ state
VARIABLES
    pc,          \* position in run: "init", "vk_new", "surface", "startup",
                 \*   "check", "frame", "poll", "events", "done"
    log,         \* native calls, drops, host calls and events so far
    nextId,      \* next fresh native handle id
    vk,          \* the local `vk` of run between Vk::new and the AppContext
    ctx,         \* the local `ctx` of run: None or Some(AppContext)
    auto_close,  \* what app.should_auto_close() returns when asked now
    close_flag,  \* main_window.should_close()
    events,      \* the window event receiver, oldest first
    delivered,   \* number of events delivered so far
    frames,      \* number of loop iterations started
    result,      \* "running", "ok", "panic" or the error run returns
    torn,        \* the AppContext as its Drop found it (None: not dropped)
    sel_in, sel_out,   \* select_physical_device applied to an enumeration
    qf_in, qf_out      \* find_queue_family_indices applied to an enumeration

vars == <<pc, log, nextId, vk, ctx, auto_close, close_flag, events, delivered,
          frames, result, torn, sel_in, sel_out, qf_in, qf_out>>

runVars == <<pc, log, nextId, vk, ctx, auto_close, close_flag, events, delivered,
             frames, result, torn>>
selVars == <<sel_in, sel_out, qf_in, qf_out>>

\* ----------------------------------------------------------------------- inputs
SeqsUpTo(S, n) == UNION {[1..k -> S] : k \in 0..n}

SelectInputs ==
    [enum_ok : BOOLEAN, devices : SeqsUpTo(PhysicalDeviceProps, MaxDevices),
     ext_enum_ok : BOOLEAN, overflow_checks : BOOLEAN]

QueueFamilyLists == SeqsUpTo(QueueFlagSets, MaxFamilies)

\* Enumerations the bootstrap of run is exercised with.
BootDeviceLists ==
    { <<>>,
      << [device_type |-> "DISCRETE_GPU", max_image_dimension2_d |-> U32(0, 4096),
          extensions |-> AllExtensions] >>,
      << [device_type |-> "INTEGRATED_GPU", max_image_dimension2_d |-> U32(0, 4096),
          extensions |-> {"VK_KHR_swapchain", "VK_KHR_dynamic_rendering"}] >>,
      << [device_type |-> "DISCRETE_GPU", max_image_dimension2_d |-> U32(Limb - 1, Limb - 1000),
          extensions |-> AllExtensions] >> }

BootQueueFamilyLists ==
    { <<>>, << {"GRAPHICS"} >>, << {"GRAPHICS", "COMPUTE"} >> }

VkInputs ==
    [instance : InstanceOutcomes,
     select : [enum_ok : BOOLEAN, devices : BootDeviceLists,
               ext_enum_ok : BOOLEAN, overflow_checks : BOOLEAN],
     queue_families : BootQueueFamilyLists,
     device_ok : BOOLEAN]

\* Native outcomes of one create_swapchain call; what follows the first
\* failure is never consulted and is left at its first value.
CreateInputs ==
    {in \in [swapchain_ok : BOOLEAN, images : 0..MaxImages, view_fail_at : 0..MaxImages] :
        /\ in.view_fail_at <= in.images
        /\ ~in.swapchain_ok => in.images = 0}

\* Host and native outcomes of one recreate_swapchain call, likewise.
RecreateInputs ==
    {in \in [format_ok : BOOLEAN, color_space_ok : BOOLEAN, min_image_count_ok : BOOLEAN,
             create : CreateInputs] :
        /\ ~in.format_ok => in.color_space_ok
        /\ ~(in.format_ok /\ in.color_space_ok) => in.min_image_count_ok
        /\ ~(in.format_ok /\ in.color_space_ok /\ in.min_image_count_ok) =>
              ~in.create.swapchain_ok}

\* The kinds of WindowEvent the body of the event loop tells apart: an Escape
\* key press, a framebuffer resize, anything else.  run turns on key polling
\* only, so the receiver it reads never yields a FramebufferSize event; such
\* deliveries are kept as inputs to exercise the resize arm of the loop.
EventKinds == {"Escape", "FramebufferSize", "Other"}

\* ------------------------------------------------------------------------- Init
SelIdle ==
    /\ sel_in = None
    /\ sel_out = None
    /\ qf_in = None
    /\ qf_out = None

RunIdle ==
    /\ pc = "init"
    /\ log = <<>>
    /\ nextId = 1
    /\ vk = None
    /\ ctx = None
    /\ close_flag = FALSE
    /\ events = <<>>
    /\ delivered = 0
    /\ frames = 0
    /\ result = "running"
    /\ torn = None

Init ==
    /\ RunIdle
    /\ auto_close \in BOOLEAN
    /\ SelIdle

\* ---------------------------------------------------------------- run: bootstrap
\* run returns before the AppContext exists: the locals still alive are dropped.
ReturnEarly(status, lg) ==
    /\ result' = status
    /\ log' = lg
    /\ pc' = "done"
    /\ vk' = None
    /\ UNCHANGED <<ctx, torn>>

\* run returns (or unwinds) with the AppContext built: ctx is dropped.
ReturnWithContext(status, c, lg) ==
    /\ result' = status
    /\ log' = AppContext_drop(c, lg)
    /\ torn' = Some(c)
    /\ ctx' = None
    /\ pc' = "done"
    /\ UNCHANGED vk

run_init ==
    /\ pc = "init"
    /\ \E glfw_ok, title_ok, window_ok \in BOOLEAN :
         LET lg1 == Append(log, Entry("call", "get_title", 0)) IN
         /\ IF ~glfw_ok THEN ReturnEarly("ErrGlfwInit", log)
            ELSE IF ~title_ok
                 THEN ReturnEarly("ErrTitle",
                                  lg1 \o << Entry("err", "get_title", 0), Entry("drop", "glfw", 0) >>)
            ELSE IF ~window_ok
                 THEN ReturnEarly("ErrWindow", Append(lg1, Entry("drop", "glfw", 0)))
            ELSE /\ pc' = "vk_new"
                 /\ log' = lg1
                 /\ UNCHANGED <<vk, ctx, result, torn>>
         \* get_title has `&mut self`
         /\ auto_close' \in (IF glfw_ok THEN BOOLEAN ELSE {auto_close})
    /\ UNCHANGED <<nextId, close_flag, events, delivered, frames>>
    /\ UNCHANGED selVars

run_vk_new ==
    /\ pc = "vk_new"
    /\ \E in \in VkInputs :
         LET r == Vk_new(in, log, nextId) IN
         /\ nextId' = r.nextId
         /\ IF r.status = "ok"
            THEN /\ vk' = Some(r.vk)
                 /\ log' = r.log
                 /\ pc' = "surface"
                 /\ UNCHANGED <<ctx, result, torn>>
            ELSE ReturnEarly(r.status,
                             r.log \o << Entry("drop", "window", 0), Entry("drop", "glfw", 0) >>)
    /\ UNCHANGED <<auto_close, close_flag, events, delivered, frames>>
    /\ UNCHANGED selVars

run_create_surface ==
    /\ pc = "surface"
    /\ \E surface_ok \in BOOLEAN :
         IF surface_ok
         THEN /\ ctx' = Some([main_surface |-> nextId, vk |-> vk[1], swapchain |-> None])
              /\ vk' = None
              /\ log' = Append(log, Entry("create", "surface", nextId))
              /\ nextId' = nextId + 1
              /\ pc' = "startup"
              /\ UNCHANGED <<result, torn>>
         ELSE /\ ReturnEarly("ErrSurfaceCreation",
                             Vk_drop(vk[1], log)
                                 \o << Entry("drop", "window", 0), Entry("drop", "glfw", 0) >>)
              /\ UNCHANGED nextId
    /\ UNCHANGED <<auto_close, close_flag, events, delivered, frames>>
    /\ UNCHANGED selVars

\* Variant: the result of recreate_swapchain is discarded (`let _ = ...`).
RecreateStep_ignore_error(in, lg, next_pc) ==
    LET r == recreate_swapchain(in, ctx[1].swapchain, lg, nextId) IN
    /\ nextId' = r.nextId
    /\ ctx' = Some([ctx[1] EXCEPT !.swapchain = r.swapchain])
    /\ log' = r.log
    /\ pc' = next_pc
    /\ UNCHANGED <<vk, result, torn>>

\* ctx.recreate_swapchain(&app)? at either call site of run
RecreateStep(in, lg, next_pc) ==
    LET r == recreate_swapchain(in, ctx[1].swapchain, lg, nextId) IN
    /\ nextId' = r.nextId
    /\ IF r.status = "ok"
       THEN /\ ctx' = Some([ctx[1] EXCEPT !.swapchain = r.swapchain])
            /\ log' = r.log
            /\ pc' = next_pc
            /\ UNCHANGED <<vk, result, torn>>
       ELSE ReturnWithContext(r.status, [ctx[1] EXCEPT !.swapchain = r.swapchain], r.log)

run_startup_recreate ==
    /\ pc = "startup"
    /\ \E in \in RecreateInputs : RecreateStep(in, log, "check")
    /\ UNCHANGED <<auto_close, close_flag, events, delivered, frames>>
    /\ UNCHANGED selVars

\* --------------------------------------------------------------- run: frame loop
FlagName(b) == IF b THEN "closing" ELSE "open"

\* Variant: the negation in the loop condition is missing.
run_loop_check_not_negated ==
    /\ pc = "check"
    /\ LET lg == Append(log, Entry("check", FlagName(close_flag), frames + 1)) IN
       IF ~close_flag
       THEN /\ ReturnWithContext("ok", ctx[1], lg)
            /\ UNCHANGED frames
       ELSE /\ frames < MaxFrames
            /\ frames' = frames + 1
            /\ log' = lg
            /\ pc' = "frame"
            /\ UNCHANGED <<vk, ctx, result, torn>>
    /\ UNCHANGED <<nextId, auto_close, close_flag, events, delivered>>
    /\ UNCHANGED selVars

\* while !ctx.main_window.should_close()
run_loop_check ==
    /\ pc = "check"
    /\ LET lg == Append(log, Entry("check", FlagName(close_flag), frames + 1)) IN
       IF close_flag
       THEN /\ ReturnWithContext("ok", ctx[1], lg)
            /\ UNCHANGED frames
       ELSE /\ frames < MaxFrames
            /\ frames' = frames + 1
            /\ log' = lg
            /\ pc' = "frame"
            /\ UNCHANGED <<vk, ctx, result, torn>>
    /\ UNCHANGED <<nextId, auto_close, close_flag, events, delivered>>
    /\ UNCHANGED selVars

\* Variant: the result of app.frame is discarded instead of propagated.
run_frame_ignore_error ==
    /\ pc = "frame"
    /\ \E frame_ok \in BOOLEAN :
         LET lg == Append(log, Entry("call", "frame", frames)) IN
         /\ log' = (IF frame_ok THEN lg ELSE Append(lg, Entry("err", "frame", frames)))
         /\ pc' = "poll"
         /\ UNCHANGED <<vk, ctx, result, torn>>
    /\ auto_close' \in BOOLEAN
    /\ UNCHANGED <<nextId, close_flag, events, delivered, frames>>
    /\ UNCHANGED selVars

\* app.frame(&mut ctx)?  The callback has `&mut self`: what the host answers
\* to should_auto_close() afterwards is its own choice.
run_frame ==
    /\ pc = "frame"
    /\ \E frame_ok \in BOOLEAN :
         LET lg == Append(log, Entry("call", "frame", frames)) IN
         IF frame_ok
         THEN /\ log' = lg
              /\ pc' = "poll"
              /\ UNCHANGED <<vk, ctx, result, torn>>
         ELSE ReturnWithContext("ErrFrame", ctx[1], Append(lg, Entry("err", "frame", frames)))
    /\ auto_close' \in BOOLEAN
    /\ UNCHANGED <<nextId, close_flag, events, delivered, frames>>
    /\ UNCHANGED selVars

RECURSIVE DeliverAll(_, _, _, _)
DeliverAll(kinds, i, seqno, acc) ==
    IF i > Len(kinds) THEN acc
    ELSE DeliverAll(kinds, i + 1, seqno + 1,
                    [queue |-> Append(acc.queue, <<kinds[i], seqno>>),
                     log   |-> Append(acc.log, Entry("deliver", kinds[i], seqno))])

\* ctx.glfw.poll_events(): the window system queues the events that arrived
\* and may raise the close flag (close request on the window).
run_poll_events ==
    /\ pc = "poll"
    /\ \E kinds \in SeqsUpTo(EventKinds, MaxEvents - delivered), close_request \in BOOLEAN :
         LET d == DeliverAll(kinds, 1, delivered + 1, [queue |-> events, log |-> log]) IN
         /\ events' = d.queue
         /\ log' = d.log
         /\ delivered' = delivered + Len(kinds)
         /\ close_flag' = (close_flag \/ close_request)
    /\ pc' = "events"
    /\ UNCHANGED <<nextId, vk, ctx, auto_close, frames, result, torn>>
    /\ UNCHANGED selVars

\* Variant: the `continue` after recreate_swapchain is missing in effect: a
\* resize event goes to the event callback.
event_route_resize_dispatched(should_auto_close, kind) ==
    IF should_auto_close /\ kind = "Escape" THEN "close"
    ELSE "dispatch"

\* Variant: the auto-close test is skipped.
event_route_no_auto_close(should_auto_close, kind) ==
    IF kind = "FramebufferSize" THEN "recreate"
    ELSE "dispatch"

\* Variant: every event that does not close the window rebuilds the swapchain.
event_route_recreate_always(should_auto_close, kind) ==
    IF should_auto_close /\ kind = "Escape" THEN "close"
    ELSE "recreate"

\* which branch the body of the event loop takes for an event
event_route(should_auto_close, kind) ==
    IF should_auto_close /\ kind = "Escape" THEN "close"
    ELSE IF kind = "FramebufferSize" THEN "recreate"
    ELSE "dispatch"

\* one pass through the body of `for (_, event) in glfw::flush_messages(&events)`:
\* app.should_auto_close() is asked anew for the event taken, and app.event
\* (`&mut self`) may change what the host answers next time.
run_event ==
    /\ pc = "events"
    /\ events # <<>>
    /\ LET event == Head(events)
           lg == Append(log, Entry("take", event[1], event[2]))
           route == event_route(auto_close, event[1])
       IN
       /\ events' = Tail(events)
       /\ IF route = "close"
          THEN /\ close_flag' = TRUE
               /\ log' = lg
               /\ pc' = "check"
               /\ UNCHANGED <<nextId, vk, ctx, result, torn, auto_close>>
          ELSE IF route = "recreate"
          THEN /\ \E in \in RecreateInputs : RecreateStep(in, lg, "events")
               /\ UNCHANGED <<close_flag, auto_close>>
          ELSE /\ \E event_ok \in BOOLEAN :
                    LET lg1 == Append(lg, Entry("call", "event", event[2])) IN
                    IF event_ok
                    THEN /\ log' = lg1
                         /\ pc' = "events"
                         /\ UNCHANGED <<vk, ctx, result, torn>>
                    ELSE ReturnWithContext("ErrEvent", ctx[1],
                                           Append(lg1, Entry("err", "event", event[2])))
               /\ auto_close' \in BOOLEAN
               /\ UNCHANGED <<nextId, close_flag>>
    /\ UNCHANGED <<delivered, frames>>
    /\ UNCHANGED selVars

\* flush_messages has no further message: the for loop ends
run_events_end ==
    /\ pc = "events"
    /\ events = <<>>
    /\ pc' = "check"
    /\ UNCHANGED <<log, nextId, vk, ctx, auto_close, close_flag, events, delivered,
                   frames, result, torn>>
    /\ UNCHANGED selVars

Next ==
    \/ run_init
    \/ run_vk_new
    \/ run_create_surface
    \/ run_startup_recreate
    \/ run_loop_check
    \/ run_frame
    \/ run_poll_events
    \/ run_event
    \/ run_events_end

Spec == Init /\ [][Next]_vars

\* The program is a single thread that keeps executing until run returns.
FairSpec == Spec /\ WF_vars(Next)

\* ------------------------------------------- selection functions on their own
SelInit ==
    /\ RunIdle
    /\ auto_close = TRUE
    /\ sel_out = None
    /\ qf_out = None
    /\ \/ sel_in \in {Some(in) : in \in SelectInputs} /\ qf_in = None
       \/ sel_in = None /\ qf_in \in {Some(q) : q \in QueueFamilyLists}

sel_select_physical_device ==
    /\ sel_in # None
    /\ sel_out = None
    /\ sel_out' = Some(select_physical_device(sel_in[1], get_required_device_extensions))
    /\ UNCHANGED <<sel_in, qf_in, qf_out>>
    /\ UNCHANGED runVars

sel_find_queue_family_indices ==
    /\ qf_in # None
    /\ qf_out = None
    /\ qf_out' = Some(find_queue_family_indices(qf_in[1]))
    /\ UNCHANGED <<sel_in, sel_out, qf_in>>
    /\ UNCHANGED runVars

SelNext ==
    \/ sel_select_physical_device
    \/ sel_find_queue_family_indices

SelSpec == SelInit /\ [][SelNext]_vars

\* ======================================================================= claims
IsCreateOf(e, kinds) == e[1] = "create" /\ e[2] \in kinds

IsDestroyOf(e, kinds) == e[1] = "destroy" /\ e[2] \in kinds

DestroyedBetween(lg, e, j, i) ==
    \E k \in (j + 1)..(i - 1) : lg[k] = Entry("destroy", e[2], e[3])

Positions(lg, Test(_)) == {i \in 1..Len(lg) : Test(lg[i])}

SeqRange(s) == {s[i] : i \in 1..Len(s)}

ContextBuilt == \E i \in 1..Len(log) : IsCreateOf(log[i], {"surface"})

HasBundle == ctx # None /\ ctx[1].swapchain # None

DropMarker == Entry("drop", "AppContext", 0)

\* C1: at most one swapchain bundle is live at any time: whenever a swapchain
\* is created, every swapchain and image view created before it has already
\* been destroyed; a swapchain is destroyed only after the image views created
\* for it; and a bundle held by the context is exactly what is live.
C1_AtMostOneLiveBundle ==
    /\ Cardinality(LiveOfKind(log, "swapchain")) <= 1
    /\ \A i \in 1..Len(log) :
         IsCreateOf(log[i], {"swapchain"}) =>
            \A j \in 1..(i - 1) :
               IsCreateOf(log[j], {"swapchain", "image_view"}) =>
                  DestroyedBetween(log, log[j], j, i)
    /\ \A k \in 1..Len(log) :
         IsDestroyOf(log[k], {"swapchain"}) =>
            \A j \in 1..(k - 1) :
               IsCreateOf(log[j], {"image_view"}) => DestroyedBetween(log, log[j], j, k)
    /\ HasBundle =>
         /\ LiveOfKind(log, "swapchain") = {ctx[1].swapchain[1].swapchain}
         /\ LiveOfKind(log, "image_view") = SeqRange(ctx[1].swapchain[1].image_views)

\* two successive recreate_swapchain calls have both built a bundle
C1_Witness ==
    /\ HasBundle
    /\ Cardinality(Positions(log, LAMBDA e : IsCreateOf(e, {"swapchain"}))) >= 2
    /\ Cardinality(Positions(log, LAMBDA e : IsDestroyOf(e, {"image_view"}))) >= 2

\* C2: when a built application context is torn down, on the normal exit and
\* on every error exit, the native destructions after the start of the drop
\* are, in this order: the image views of the current bundle in vector order,
\* its swapchain, the surface, the device, the instance, and then the entry is
\* dropped; and run never ends with a built context that was not torn down.
IsTeardownCall(e) == e[1] = "destroy" \/ e = Entry("drop", "entry", 0)

TeardownCalls ==
    LET m == CHOOSE i \in 1..Len(log) : log[i] = DropMarker
    IN  SelectSeq(SubSeq(log, m + 1, Len(log)), IsTeardownCall)

ExpectedTeardown(c) ==
    (IF c.swapchain = None THEN <<>>
     ELSE [k \in 1..Len(c.swapchain[1].image_views) |->
               Entry("destroy", "image_view", c.swapchain[1].image_views[k])]
          \o << Entry("destroy", "swapchain", c.swapchain[1].swapchain) >>)
    \o << Entry("destroy", "surface", c.main_surface),
          Entry("destroy", "device", c.vk.device),
          Entry("destroy", "instance", c.vk.instance),
          Entry("drop", "entry", 0) >>

C2_TeardownOrder ==
    /\ pc = "done" /\ ContextBuilt => torn # None
    /\ torn # None =>
         /\ pc = "done"
         /\ CountOf(log, DropMarker) = 1
         /\ TeardownCalls = ExpectedTeardown(torn[1])

\* an error raised by the event callback tears down a context holding a bundle
C2_Witness ==
    /\ pc = "done"
    /\ result = "ErrEvent"
    /\ torn # None
    /\ torn[1].swapchain # None

\* C3 (as claimed): once Vk::new has failed at a step after the instance was
\* created, no instance and no device is live any more.
VkNewFailures ==
    {"ErrNoSuitableDevice", "ErrExtensionEnumeration", "ErrMissingExtensions", "panic"}

C3_NoOrphanAfterFailedVkNew ==
    pc = "done" /\ result \in VkNewFailures =>
        /\ LiveOfKind(log, "instance") = {}
        /\ LiveOfKind(log, "device") = {}

\* C4: no native handle is destroyed twice or destroyed without having been
\* created; the surface is created at most once and only Drop for AppContext
\* destroys it; a run that built the context ends with the surface created
\* once and destroyed once, also when a rebuild failed after destroying the
\* previous bundle.
C4_DestroyAtMostOnce ==
    /\ \A i \in 1..Len(log) :
         log[i][1] = "destroy" => \A j \in (i + 1)..Len(log) : log[j] # log[i]
    /\ \A i \in 1..Len(log) :
         log[i][1] = "destroy" =>
            \E j \in 1..(i - 1) : log[j] = Entry("create", log[i][2], log[i][3])
    /\ Cardinality(Positions(log, LAMBDA e : IsCreateOf(e, {"surface"}))) <= 1
    /\ \A i \in 1..Len(log) :
         IsDestroyOf(log[i], {"surface"}) => \E m \in 1..(i - 1) : log[m] = DropMarker
    /\ ctx # None => IsLive(log, "surface", ctx[1].main_surface)
    /\ pc = "done" /\ ContextBuilt =>
         /\ torn # None
         /\ CountOf(log, Entry("create", "surface", torn[1].main_surface)) = 1
         /\ CountOf(log, Entry("destroy", "surface", torn[1].main_surface)) = 1
         /\ LiveOfKind(log, "surface") = {}

\* a resize rebuild destroyed the previous bundle and then failed to create
\* the new swapchain
C4_Witness ==
    /\ pc = "done"
    /\ result = "ErrSwapchainCreation"
    /\ \E i \in 1..Len(log) : IsDestroyOf(log[i], {"swapchain"})

HeldHandles(c) ==
    IF c = None \/ c[1].swapchain = None THEN {}
    ELSE {<<"swapchain", c[1].swapchain[1].swapchain>>}
         \cup {<<"image_view", v>> : v \in SeqRange(c[1].swapchain[1].image_views)}

\* what the step being taken appends to the log
StepLog == SubSeq(log', Len(log) + 1, Len(log'))

RecreateCall == Entry("call", "recreate_swapchain", 0)

IsTakeOf(e, kind) == e[1] = "take" /\ e[2] = kind

IsDeliveryOf(e, kind) == e[1] = "deliver" /\ e[2] = kind

\* C5: the step that takes a framebuffer-resize event from the queue calls
\* recreate_swapchain exactly once, the event callback is never called with
\* that event, and afterwards the context holds none of the handles of the
\* bundle it held before (they have all been destroyed).
ResizeTaken == pc = "events" /\ events # <<>> /\ Head(events)[1] = "FramebufferSize"

C5_ResizeRebuildsOnce ==
    [][ResizeTaken =>
         /\ StepLog[1] = Entry("take", "FramebufferSize", Head(events)[2])
         /\ CountOf(StepLog, RecreateCall) = 1
         /\ \A i \in 1..Len(log') :
              IsTakeOf(log'[i], "FramebufferSize") =>
                 CountOf(log', Entry("call", "event", log'[i][3])) = 0
         /\ HeldHandles(ctx') \cap HeldHandles(ctx) = {}
         /\ \A h \in HeldHandles(ctx) : ~IsLive(log', h[1], h[2])
         /\ \A h \in HeldHandles(ctx') : IsLive(log', h[1], h[2])
    ]_vars

\* a resize event was taken while a bundle was held and the rebuild succeeded
C5_Witness ==
    /\ pc = "events"
    /\ HasBundle
    /\ \E i \in 1..Len(log) :
         /\ IsTakeOf(log[i], "FramebufferSize")
         /\ \E j \in (i + 1)..Len(log) : IsDestroyOf(log[j], {"swapchain"})

\* C6: when the host answers that auto-close is on, taking an Escape press
\* sets the close flag and nothing else happens in that step; such a press is
\* followed by nothing but the loop check that ends the loop and the teardown:
\* no event is taken, no host callback runs, no swapchain is rebuilt, and run
\* returns success.  When the host answers that auto-close is off, the Escape
\* press is handed to the event callback in the same step.
TakesEscape == pc = "events" /\ events # <<>> /\ Head(events)[1] = "Escape"

EscapeClosed(i) ==
    /\ close_flag
    /\ pc \in {"check", "done"}
    /\ pc = "done" => result = "ok"
    /\ i < Len(log) => log[i + 1] = Entry("check", "closing", frames + 1)
    /\ \A j \in (i + 1)..Len(log) :
         log[j][1] \notin {"take", "call", "err", "create", "deliver"}
    /\ CountOf(log, Entry("call", "event", log[i][3])) = 0

EscapeDispatched(i) ==
    /\ i < Len(log)
    /\ log[i + 1] = Entry("call", "event", log[i][3])

C6_EscapeHistory ==
    \A i \in 1..Len(log) :
       IsTakeOf(log[i], "Escape") => EscapeClosed(i) \/ EscapeDispatched(i)

C6_EscapeAutoClose ==
    /\ []C6_EscapeHistory
    /\ [][TakesEscape =>
            IF auto_close
            THEN /\ StepLog = << Entry("take", "Escape", Head(events)[2]) >>
                 /\ close_flag' /\ pc' = "check"
                 /\ events' = Tail(events)
            ELSE /\ Len(StepLog) >= 2
                 /\ StepLog[1] = Entry("take", "Escape", Head(events)[2])
                 /\ StepLog[2] = Entry("call", "event", Head(events)[2])
         ]_vars

\* the loop ended after an Escape press was dispatched to a host that then
\* turned auto-close on, and the next Escape press closed the window
C6_Witness ==
    /\ pc = "done"
    /\ result = "ok"
    /\ \E i \in 1..Len(log) :
         /\ IsTakeOf(log[i], "Escape") /\ EscapeDispatched(i)
         /\ \E j \in (i + 1)..Len(log) : IsTakeOf(log[j], "Escape") /\ EscapeClosed(j)

\* main_window.set_key_polling(true) is the only polling run turns on: a run
\* of the program as configured has no framebuffer-resize delivery.
KeyPollingOnly ==
    \A i \in 1..Len(log) : ~IsDeliveryOf(log[i], "FramebufferSize")

StartupDone == ContextBuilt /\ pc # "startup"

ResizeDeliveries == Positions(log, LAMBDA e : IsDeliveryOf(e, "FramebufferSize"))

ResizeTakes == Positions(log, LAMBDA e : IsTakeOf(e, "FramebufferSize"))

ResizeQueued == {k \in 1..Len(events) : events[k][1] = "FramebufferSize"}

HostError(kind) ==
    CASE kind = "get_title"                     -> "ErrTitle"
      [] kind = "frame"                         -> "ErrFrame"
      [] kind = "event"                         -> "ErrEvent"
      [] kind = "get_swapchain_format"          -> "ErrFormat"
      [] kind = "get_swapchain_color_space"     -> "ErrColorSpace"
      [] kind = "get_swapchain_min_image_count" -> "ErrMinImageCount"

NativeKinds == {"instance", "device", "surface", "swapchain", "image_view"}

C8_HostErrorAborts ==
    \A i \in 1..Len(log) :
       log[i][1] = "err" =>
          /\ pc = "done"
          /\ result = HostError(log[i][2])
          /\ log[i - 1][1] = "call" /\ log[i - 1][2] = log[i][2]
          /\ \A j \in (i + 1)..Len(log) :
               log[j][1] \notin {"call", "err", "take", "deliver", "check", "create"}
          /\ ContextBuilt =>
               /\ torn # None
               /\ \E m \in (i + 1)..Len(log) : log[m] = DropMarker
               /\ \A kind \in NativeKinds : LiveOfKind(log, kind) = {}

\* a getter failed inside the rebuild for a resize event, after the previous
\* bundle had been destroyed
C8_Witness ==
    /\ pc = "done"
    /\ result = "ErrMinImageCount"
    /\ \E i \in 1..Len(log) : IsTakeOf(log[i], "FramebufferSize")
    /\ torn # None

\* C9: run returns success only after a loop check that saw the flag set;
\* every loop check that saw the flag clear is followed by exactly one
\* per-frame callback, which precedes the events of that iteration, and no
\* per-frame callback runs otherwise; once the flag is set run eventually
\* returns, and it returns success when no host callback failed (the events
\* being those the window reports with key polling only).
NoHostError == \A i \in 1..Len(log) : log[i][1] # "err"

RebuildFailures == {"ErrSwapchainCreation", "ErrSwapchainImages", "ErrImageView"}

C9_LoopShape ==
    /\ result = "ok" =>
         \E i \in 1..Len(log) :
            /\ log[i][1] = "check" /\ log[i][2] = "closing"
            /\ \A j \in (i + 1)..Len(log) : log[j][1] \in {"drop", "destroy"}
    /\ \A i \in 1..Len(log) :
         /\ log[i][1] = "check" /\ log[i][2] = "open" =>
               IF i = Len(log) THEN pc = "frame"
               ELSE log[i + 1] = Entry("call", "frame", log[i][3])
         /\ log[i][1] = "check" /\ log[i][2] = "closing" =>
               \A j \in (i + 1)..Len(log) : log[j][1] \in {"drop", "destroy"}
         /\ log[i][1] = "call" /\ log[i][2] = "frame" =>
               /\ log[i - 1] = Entry("check", "open", log[i][3])
               /\ \A j \in (i + 1)..Len(log) : log[j] # log[i]
         /\ log[i][1] \in {"deliver", "take"} =>
               \E f \in 1..(i - 1) :
                  /\ log[f][1] = "call" /\ log[f][2] = "frame"
                  /\ \A j \in (f + 1)..i : log[j][1] # "check"

C9_ClosedRunSucceeds ==
    pc = "done" /\ close_flag /\ NoHostError /\ KeyPollingOnly => result = "ok"

C9_FrameLoopTermination ==
    /\ []C9_LoopShape
    /\ []C9_ClosedRunSucceeds
    /\ close_flag ~> (pc = "done")

\* a close request raised the flag in a tick whose key event was then handed
\* to the event callback, and run returned success
C9_Witness ==
    /\ pc = "done"
    /\ result = "ok"
    /\ close_flag
    /\ KeyPollingOnly
    /\ \A i \in 1..Len(log) : ~IsTakeOf(log[i], "Escape")
    /\ \E i \in 1..Len(log) :
         /\ IsTakeOf(log[i], "Other")
         /\ log[i + 1] = Entry("call", "event", log[i][3])
         /\ \A j \in (i + 1)..Len(log) : ~(log[j][1] = "call" /\ log[j][2] = "frame")

\* C10 (as claimed): for every non-empty enumeration the device taken from the
\* candidates has the maximum score, the score being type bonus plus
\* max_image_dimension2_d, and is the last enumerated device with that score.
claim_score(props) ==
    LET low == type_bonus(props.device_type) + props.max_image_dimension2_d[2]
    IN  <<props.max_image_dimension2_d[1] + (low \div Limb), low % Limb>>

C10_PicksLastMaxScore ==
    sel_in # None /\ sel_out # None /\ sel_in[1].enum_ok /\ Len(sel_in[1].devices) > 0 =>
        LET devices == sel_in[1].devices
            picked == sel_out[1].candidate
        IN  /\ picked \in 1..Len(devices)
            /\ \A j \in 1..Len(devices) :
                 u32_le(claim_score(devices[j]), claim_score(devices[picked]))
            /\ \A j \in (picked + 1)..Len(devices) :
                 claim_score(devices[j]) # claim_score(devices[picked])

SelectApplied == sel_in # None /\ sel_out # None /\ sel_in[1].enum_ok

\* C11 (as claimed): for every pair of enumerated devices, a discrete GPU is
\* never passed over for an integrated GPU whose max image dimension is equal
\* or smaller, whatever u32 value the dimensions have: the selection neither
\* aborts nor takes the integrated device.
C11_DiscreteNeverLosesToIntegrated ==
    SelectApplied =>
        LET devices == sel_in[1].devices IN
        \A i, j \in 1..Len(devices) :
           /\ devices[i].device_type = "DISCRETE_GPU"
           /\ devices[j].device_type = "INTEGRATED_GPU"
           /\ u32_le(devices[j].max_image_dimension2_d, devices[i].max_image_dimension2_d)
           => /\ sel_out[1].status # "panic"
              /\ sel_out[1].candidate # j

\* C12 (as claimed): with at least one device enumerated and its extensions
\* enumerable, the selection fails with the missing-extensions error exactly
\* when the highest-scored device (the last one of maximum score) lacks a
\* required extension, and otherwise returns that device.
TopScored(devices) ==
    CHOOSE t \in 1..Len(devices) :
       /\ \A j \in 1..Len(devices) : u32_le(claim_score(devices[j]), claim_score(devices[t]))
       /\ \A j \in (t + 1)..Len(devices) : claim_score(devices[j]) # claim_score(devices[t])

C12_MissingExtensionsIffTopLacks ==
    SelectApplied /\ Len(sel_in[1].devices) > 0 /\ sel_in[1].ext_enum_ok =>
        LET devices == sel_in[1].devices
            top == TopScored(devices)
            supported == SeqRange(get_required_device_extensions) \subseteq devices[top].extensions
        IN  /\ sel_out[1].status = "ErrMissingExtensions" <=> ~supported
            /\ supported => sel_out[1].status = "ok"
            /\ sel_out[1].status = "ok" => sel_out[1].candidate = top

\* C13: find_queue_family_indices returns the index of the first enumerated
\* family whose flags include both GRAPHICS and COMPUTE, and ends in the panic
\* (-1) exactly when no enumerated family has both.
HasBothFlags(family) == "GRAPHICS" \in family /\ "COMPUTE" \in family

C13_LowestQualifyingFamily ==
    qf_in # None /\ qf_out # None =>
        LET families == qf_in[1]
            qualifying == {i \in 1..Len(families) : HasBothFlags(families[i])}
        IN  IF qualifying = {} THEN qf_out[1] = -1
            ELSE /\ qf_out[1] + 1 \in qualifying
                 /\ \A i \in qualifying : qf_out[1] + 1 <= i

\* the first family has one flag only and the second has both
C13_Witness ==
    /\ qf_in # None
    /\ qf_out = Some(1)
    /\ Len(qf_in[1]) >= 2
    /\ qf_in[1][1] # {}

\* C14: when the enumeration yields no physical device, run has returned the
\* error of the empty candidate map: no device, surface, swapchain or image
\* view was ever created and no per-frame or event callback was invoked.
NoDevicesEnumerated == Entry("enumerate", "physical_device", 0)

C14_NoDevicesAbortsBootstrap ==
    \A i \in 1..Len(log) :
       log[i] = NoDevicesEnumerated =>
          /\ pc = "done"
          /\ result = "ErrNoSuitableDevice"
          /\ \A j \in 1..Len(log) :
               /\ ~IsCreateOf(log[j], {"device", "surface", "swapchain", "image_view"})
               /\ ~(log[j][1] = "call" /\ log[j][2] \in {"frame", "event", "recreate_swapchain"})

\* run ended after an enumeration of zero devices
C14_Witness ==
    /\ pc = "done"
    /\ result = "ErrNoSuitableDevice"
    /\ \E i \in 1..Len(log) : log[i] = NoDevicesEnumerated

\* C15 (as claimed): a failed native device creation makes run return a
\* device-creation error as its result.
C15_DeviceFailureIsErrorResult ==
    \A i \in 1..Len(log) :
       log[i] = Entry("fail", "device", 0) => result = "ErrDeviceCreation"

\* C16: a bundle held by the context has as many image views as images, and
\* view k was created by the k-th create_image_view call of its
\* create_swapchain, the call whose create info named image k.
ViewCreatedFor(image, view) ==
    \E i \in 1..(Len(log) - 1) :
       /\ log[i] = Entry("view_of", "image", image)
       /\ log[i + 1] = Entry("create", "image_view", view)

C16_OneViewPerImageInOrder ==
    HasBundle =>
        LET holder == ctx[1].swapchain[1] IN
        /\ Len(holder.image_views) = Len(holder.images)
        /\ Len(holder.images) >= 1
        /\ \A k \in 1..Len(holder.images) :
             ViewCreatedFor(holder.images[k], holder.image_views[k])
        /\ \A k, l \in 1..Len(holder.images) :
             k # l => holder.images[k] # holder.images[l]
                      /\ holder.image_views[k] # holder.image_views[l]

\* the context holds a bundle of at least two images
C16_Witness ==
    /\ HasBundle
    /\ Len(ctx[1].swapchain[1].images) >= 2
    /\ pc = "poll"

\* C17 (as claimed): when create_swapchain has failed after creating the
\* swapchain (get_swapchain_images failed, or a create_image_view failed),
\* the swapchain and the image views it had created are destroyed before the
\* logical device is.
PartialCreateFailures == {"ErrSwapchainImages", "ErrImageView"}

C17_FailedCreateLeaksNothing ==
    pc = "done" /\ result \in PartialCreateFailures =>
        \A d \in 1..Len(log) :
           IsDestroyOf(log[d], {"device"}) =>
              \A j \in 1..(d - 1) :
                 IsCreateOf(log[j], {"swapchain", "image_view"}) =>
                    DestroyedBetween(log, log[j], j, d)

\* C18 (as claimed): every creation or destruction of a swapchain or image
\* view happens while the device is live, every creation or destruction of
\* the surface or the device happens while the instance is live, and when
\* the device or the instance is destroyed none of its children is live.
ParentKind(kind) ==
    CASE kind \in {"swapchain", "image_view"} -> "device"
      [] kind \in {"surface", "device"}       -> "instance"

Children(kind) ==
    IF kind = "device" THEN {"swapchain", "image_view"} ELSE {"surface", "device"}

C18_NoUseOfDestroyedParent ==
    \A i \in 1..Len(log) :
       /\ log[i][1] \in {"create", "destroy"} /\ log[i][2] \in {"swapchain", "image_view",
                                                              "surface", "device"} =>
             \E p \in 1..(i - 1) :
                /\ IsCreateOf(log[p], {ParentKind(log[i][2])})
                /\ ~DestroyedBetween(log, log[p], p, i)
       /\ IsDestroyOf(log[i], {"device", "instance"}) =>
             \A j \in 1..(i - 1) :
                IsCreateOf(log[j], Children(log[i][2])) => DestroyedBetween(log, log[j], j, i)

\* C19: every step that invokes the per-frame or the event callback starts
\* with the context holding a bundle whose swapchain and image views are all
\* live; the swapchain field of a built context is empty only before the
\* startup recreate_swapchain, and Drop for AppContext finds it empty only
\* after a recreate_swapchain that failed.
RecreateFailures ==
    RebuildFailures \cup {"ErrFormat", "ErrColorSpace", "ErrMinImageCount"}

InvokesCallback ==
    \E k \in 1..Len(StepLog) :
       StepLog[k][1] = "call" /\ StepLog[k][2] \in {"frame", "event"}

C19_FieldEmptyOnlyAroundRecreate ==
    /\ ctx # None /\ ctx[1].swapchain = None => pc = "startup"
    /\ torn # None /\ torn[1].swapchain = None => result \in RecreateFailures
    /\ pc \in {"check", "frame", "poll", "events"} => HasBundle

C19_CallbacksSeeLiveBundle ==
    /\ []C19_FieldEmptyOnlyAroundRecreate
    /\ [][InvokesCallback =>
            /\ HasBundle
            /\ \A h \in HeldHandles(ctx) : IsLive(log, h[1], h[2])
            /\ ctx' = ctx \/ ctx' = None
         ]_vars

\* the event callback was invoked after a resize had replaced the bundle
C19_Witness ==
    /\ HasBundle
    /\ \E i \in 1..Len(log) :
         /\ IsTakeOf(log[i], "FramebufferSize")
         /\ \E j \in (i + 1)..Len(log) : log[j][1] = "call" /\ log[j][2] = "event"

\* C20: in the teardown of a built context the window and the windowing
\* library handle are dropped after the bundle and the surface have been
\* destroyed and before the device and the instance are destroyed.
PositionAfter(e, m) == CHOOSE i \in (m + 1)..Len(log) : log[i] = e

C20_WindowOutlivesSurfaceOnly ==
    torn # None =>
        LET m == PositionAfter(DropMarker, 0)
            surface == PositionAfter(Entry("destroy", "surface", torn[1].main_surface), m)
            glfw == PositionAfter(Entry("drop", "glfw", 0), m)
            window == PositionAfter(Entry("drop", "window", 0), m)
            device == PositionAfter(Entry("destroy", "device", torn[1].vk.device), m)
            instance == PositionAfter(Entry("destroy", "instance", torn[1].vk.instance), m)
        IN  /\ CountOf(log, Entry("drop", "window", 0)) = 1
            /\ CountOf(log, Entry("drop", "glfw", 0)) = 1
            /\ surface < glfw /\ surface < window
            /\ glfw < device /\ window < device
            /\ device < instance
            /\ \A h \in HeldHandles(torn) :
                 \E k \in (m + 1)..(surface - 1) : log[k] = Entry("destroy", h[1], h[2])

\* a context holding a bundle was torn down after the per-frame callback failed
C20_Witness ==
    /\ pc = "done"
    /\ result = "ErrFrame"
    /\ torn # None
    /\ torn[1].swapchain # None

====
